---- MODULE Spec2Model ----
(***************************************************************************)
(* Model of crates/bevy_render/src/view/visibility/render_layers.rs:       *)
(*   - RenderLayers, a growable bitset of layers kept in 64-bit blocks;     *)
(*   - visible_layers_propagate_system / propagate_recursive, which push    *)
(*     VisibleLayers down an entity hierarchy into ComputedVisibleLayers.   *)
(*                                                                         *)
(* A u64 block is modelled by the set of its set bit positions (0..63):     *)
(* the two are in bijection, `|`, `&`, `^` are union, intersection and      *)
(* symmetric difference, and 0 is the empty set.  A RenderLayers value is   *)
(* the sequence of its blocks, so the derived `==` is sequence equality.    *)
(***************************************************************************)
EXTENDS Integers, Sequences, FiniteSets, TLC

\* ------------------------------------------------------------------------
\* Program constants
\* ------------------------------------------------------------------------

\* const INLINE_BLOCKS: usize = 1
INLINE_BLOCKS == 1

\* the width of one block (u64), as used by layer_info
BLOCK_BITS == 64

\* ------------------------------------------------------------------------
\* Bounds of the model
\* ------------------------------------------------------------------------

\* the largest layer number drawn as an input (it lies in the third block)
MaxLayer == 130

\* the longest slice handed to from_layers
MaxLen == 2

\* the number of nested calls of propagate_recursive the stack has room for
MaxDepth == 8

\* ------------------------------------------------------------------------
\* u64 helpers
\* ------------------------------------------------------------------------

ZeroBlock == {}

SetMin(S) == CHOOSE x \in S : \A y \in S : x <= y

SetMax(S) == CHOOSE x \in S : \A y \in S : x >= y

Max2(x, y) == IF x >= y THEN x ELSE y

Min2(x, y) == IF x <= y THEN x ELSE y

\* u64::trailing_zeros
trailing_zeros(b) == IF b = ZeroBlock THEN BLOCK_BITS ELSE SetMin(b)

\* u64::checked_shr(n).unwrap_or(0): None when n >= 64
checked_shr_or_zero(b, n) ==
    IF n >= BLOCK_BITS THEN ZeroBlock ELSE {x - n : x \in {y \in b : y >= n}}

\* the values of one u64 block, as sets of bit positions
Block == SUBSET (0 .. (BLOCK_BITS - 1))

BitAndBlock == [x \in Block, y \in Block |-> x \cap y]

BitOrBlock == [x \in Block, y \in Block |-> x \cup y]

BitXorBlock == [x \in Block, y \in Block |-> (x \ y) \cup (y \ x)]

\* ------------------------------------------------------------------------
\* RenderLayers
\* ------------------------------------------------------------------------

\* layer_info, had it kept every layer in the first block
layer_info_inline(n) == << 0, {n % BLOCK_BITS} >>

\* layer_info: (buffer_index, bit)
layer_info(n) == << n \div BLOCK_BITS, {n % BLOCK_BITS} >>

\* RenderLayers::none
none == [i \in 1 .. INLINE_BLOCKS |-> ZeroBlock]

\* layer, had it carried no assertion
layer_unchecked(n) == TRUE

\* the assertion of RenderLayers::layer
layer_in_bounds(n) == layer_info(n)[1] < INLINE_BLOCKS

\* RenderLayers::layer, for n passing the assertion
layer(n) == [i \in 1 .. INLINE_BLOCKS |->
                IF i = layer_info(n)[1] + 1 THEN layer_info(n)[2] ELSE ZeroBlock]

\* <RenderLayers as Default>::default
default_layers == layer(0)

\* extend_buffer: resize to max(len, other_len), new blocks 0
extend_buffer(s, other_len) ==
    [i \in 1 .. Max2(Len(s), other_len) |-> IF i <= Len(s) THEN s[i] ELSE ZeroBlock]

\* with, had it set the bit without growing the buffer first
with_unextended(s, n) ==
    LET buffer_index == layer_info(n)[1]
        bit == layer_info(n)[2]
    IN  IF buffer_index < Len(s)
        THEN [s EXCEPT ![buffer_index + 1] = BitOrBlock[@, bit]]
        ELSE s

\* RenderLayers::with
with(s, n) ==
    LET buffer_index == layer_info(n)[1]
        bit == layer_info(n)[2]
        ext == extend_buffer(s, buffer_index + 1)
    IN  [ext EXCEPT ![buffer_index + 1] = BitOrBlock[@, bit]]

RECURSIVE shrink(_)
\* RenderLayers::shrink: pop trailing zero blocks beyond the inline ones
shrink(s) ==
    IF Len(s) > INLINE_BLOCKS /\ s[Len(s)] = ZeroBlock
    THEN shrink(SubSeq(s, 1, Len(s) - 1))
    ELSE s

\* without, had it cleared the bit and never shrunk
without_unshrunk(s, n) ==
    LET buffer_index == layer_info(n)[1]
        bit == layer_info(n)[2]
    IN  IF buffer_index < Len(s)
        THEN [s EXCEPT ![buffer_index + 1] = @ \ bit]
        ELSE s

\* RenderLayers::without
without(s, n) ==
    LET buffer_index == layer_info(n)[1]
        bit == layer_info(n)[2]
        cleared == [s EXCEPT ![buffer_index + 1] = @ \ bit]
    IN  IF buffer_index < Len(s)
        THEN IF buffer_index = Len(s) - 1 THEN shrink(cleared) ELSE cleared
        ELSE s

RECURSIVE from_iter_fold(_, _)
from_iter_fold(acc, xs) ==
    IF xs = << >> THEN acc ELSE from_iter_fold(with(acc, Head(xs)), Tail(xs))

\* FromIterator::from_iter: fold(none(), with)
from_iter(xs) == from_iter_fold(none, xs)

\* RenderLayers::from_layers
from_layers(xs) == from_iter(xs)

\* combine_blocks, had it stopped at the end of the shorter value
combine_blocks_zipped(a, b, f) ==
    [i \in 1 .. Min2(Len(a), Len(b)) |-> f[a[i], b[i]]]

\* RenderLayers::combine_blocks: a missing block counts as 0
combine_blocks(a, b, f) ==
    [i \in 1 .. Max2(Len(a), Len(b)) |->
        f[IF i <= Len(a) THEN a[i] ELSE ZeroBlock,
          IF i <= Len(b) THEN b[i] ELSE ZeroBlock]]

\* intersection, had it skipped shrink
intersection_unshrunk(a, b) == combine_blocks(a, b, BitAndBlock)

\* RenderLayers::intersection
intersection(a, b) == shrink(combine_blocks(a, b, BitAndBlock))

\* RenderLayers::union (not shrunk)
union(a, b) == combine_blocks(a, b, BitOrBlock)

\* symmetric_difference, had it skipped shrink
symmetric_difference_unshrunk(a, b) == combine_blocks(a, b, BitXorBlock)

\* RenderLayers::symmetric_difference
symmetric_difference(a, b) == shrink(combine_blocks(a, b, BitXorBlock))

\* intersects, had it compared the inline blocks only
intersects_inline(selfPtr, self, otherPtr, other) ==
    IF selfPtr = otherPtr
    THEN TRUE
    ELSE \E i \in 1 .. Min2(INLINE_BLOCKS, Min2(Len(self), Len(other))) :
            BitAndBlock[self[i], other[i]] # ZeroBlock

\* <RenderLayers as BitAnd>::bitand
bitand(self, rhs) == intersection(self, rhs)

\* <RenderLayers as BitOr>::bitor
bitor(self, rhs) == union(self, rhs)

\* <RenderLayers as BitXor>::bitxor
bitxor(self, rhs) == symmetric_difference(self, rhs)

\* RenderLayers::intersects; the pointers are the addresses of the two storages
intersects(selfPtr, self, otherPtr, other) ==
    IF selfPtr = otherPtr
    THEN TRUE
    ELSE \E i \in 1 .. Min2(Len(self), Len(other)) :
            BitAndBlock[self[i], other[i]] # ZeroBlock

RECURSIVE iter_layers_from(_, _)
\* the from_fn closure of iter_layers, run until it returns None
iter_layers_from(buffer, cur) ==
    IF buffer = ZeroBlock
    THEN << >>
    ELSE LET next == trailing_zeros(buffer) + 1
         IN  << cur + next - 1 >>
               \o iter_layers_from(checked_shr_or_zero(buffer, next), cur + next)

\* iter_layers, had it not turned the block index into a layer number
iter_layers_unscaled(buffer, offset) == iter_layers_from(buffer, offset)

\* RenderLayers::iter_layers((buffer, offset))
iter_layers(buffer, offset) == iter_layers_from(buffer, offset * BLOCK_BITS)

RECURSIVE iter_blocks(_, _)
iter_blocks(s, i) ==
    IF i > Len(s) THEN << >> ELSE iter_layers(s[i], i - 1) \o iter_blocks(s, i + 1)

\* RenderLayers::iter: zip(0..).flat_map(iter_layers)
iter(s) == iter_blocks(s, 1)

\* the layers a value contains: bit k of block i (from 0) is layer 64 * i + k
Members(s) == UNION {{BLOCK_BITS * (i - 1) + k : k \in s[i]} : i \in 1 .. Len(s)}

\* ------------------------------------------------------------------------
\* The world: entities, components, hierarchy
\* ------------------------------------------------------------------------

\* the number of entities of the world
NumEntities == 4

\* the number of edits (component insertions) made between the spawning of
\* the scene and the end of a run
MaxEdits == 2

Entity == 1 .. NumEntities

\* VisibleLayers
Inherited == [tag |-> "Inherited", layers |-> none]

Layers(s) == [tag |-> "Layers", layers |-> s]

\* the explicit values the edits draw from: one inline, one of three blocks
ExplicitChoices == {layer(1), from_layers(<< 2, MaxLayer >>)}

VisibleLayersChoices == {Inherited} \cup {Layers(s) : s \in ExplicitChoices}

\* <ComputedVisibleLayers as Default>::default (derived): RenderLayers::default()
computed_default == default_layers

VARIABLES
    tracked,      \* entities with VisibleLayers and ComputedVisibleLayers
    declared,     \* VisibleLayers of each entity
    computed,     \* ComputedVisibleLayers of each entity
    childOf,      \* Option<ChildOf>: {} or {parent}
    children,     \* Children: the Vec of child ids (empty = no component)
    flagged,      \* Changed<VisibleLayers> or Changed<ChildOf> since the last pass
    pc,           \* "idle", "pass" while the system runs, "panicked"
    queue,        \* the entities `for .. in &changed` has yet to yield
    stack,        \* frames of the loops over children: [layers, todo]
    passFlagged,  \* history: the entities the running/last pass was handed
    written,      \* history: the entities whose computed value that pass wrote
    recVisited,   \* history: the entities propagate_recursive was called on
    lastStep,     \* history: what the last step of the pass did
    edits,        \* the number of edits made so far
    reg,          \* RenderLayers values under test, by the name of their storage
    out,          \* the last RenderLayers operation and what it returned
    snap          \* history: the pass a later pass is compared with

worldVars == << tracked, declared, computed, childOf, children, flagged >>

passVars == << pc, queue, stack, passFlagged, written, recVisited, lastStep, snap >>

layerVars == << reg, out >>

vars == << tracked, declared, computed, childOf, children, flagged, pc, queue, stack,
           passFlagged, written, recVisited, lastStep, edits, reg, out, snap >>

\* ------------------------------------------------------------------------
\* Sequence helpers
\* ------------------------------------------------------------------------

Range(f) == {f[i] : i \in DOMAIN f}

RemoveFromSeq(xs, x) == SelectSeq(xs, LAMBDA y : y # x)

RECURSIVE Flatten(_)
Flatten(xss) == IF xss = << >> THEN << >> ELSE Head(xss) \o Flatten(Tail(xss))

RECURSIVE Ascending(_)
\* the elements of a set of numbers, smallest first
Ascending(S) == IF S = {} THEN << >> ELSE << SetMin(S) >> \o Ascending(S \ {SetMin(S)})

\* ------------------------------------------------------------------------
\* Hierarchy
\* ------------------------------------------------------------------------

RECURSIVE AncestorsUpTo(_, _)
\* the ancestors of e along ChildOf, following at most k links
AncestorsUpTo(e, k) ==
    IF k = 0 \/ childOf[e] = {}
    THEN {}
    ELSE childOf[e] \cup UNION {AncestorsUpTo(p, k - 1) : p \in childOf[e]}

Ancestors(e) == AncestorsUpTo(e, NumEntities)

Descendants(e) == {d \in Entity : e \in Ancestors(d)}

\* ChildOf and Children mirror each other, and no entity is its own ancestor
WellFormed ==
    /\ \A e \in Entity : e \notin Ancestors(e)
    /\ \A p \in Entity : \A i, j \in DOMAIN children[p] :
            children[p][i] = children[p][j] => i = j
    /\ \A p, c \in Entity : (c \in Range(children[p])) <=> (childOf[c] = {p})

\* ------------------------------------------------------------------------
\* visible_layers_propagate_system and propagate_recursive
\* ------------------------------------------------------------------------

\* visible_layer_query.get(e) / get_mut(e) is Ok
query_has(e) == e \in tracked

\* the `changed` query: tracked entities whose VisibleLayers or ChildOf changed
changed_query == {e \in flagged : query_has(e)}

\* the entry loop with `unwrap_or(RenderLayers::none())` for its fallback
resolve_entry_or_none(e) ==
    IF declared[e].tag = "Layers"
    THEN declared[e].layers
    ELSE IF \E p \in childOf[e] : query_has(p)
         THEN computed[CHOOSE p \in childOf[e] : query_has(p)]
         ELSE none

\* the match of the entry loop: the entity's own layers, else the parent's
\* computed layers, else (no parent, or the parent lookup fails) the default
resolve_entry(e) ==
    IF declared[e].tag = "Layers"
    THEN declared[e].layers
    ELSE IF \E p \in childOf[e] : query_has(p)
         THEN computed[CHOOSE p \in childOf[e] : query_has(p)]
         ELSE default_layers

\* the match of propagate_recursive
resolve_recursive(e, parent_render_layers) ==
    IF declared[e].tag = "Layers" THEN declared[e].layers ELSE parent_render_layers

\* the entry loop iterates `children.into_iter().flatten()`: the entity's own
\* Children, nothing when it has none
entry_children(e) == children[e]

\* children_query: every tracked entity that has a Children component, in
\* storage order
children_query == Ascending({e \in Entity : query_has(e) /\ children[e] # << >>})

\* the Children of `entity` alone, as children_query.get(entity) would give
children_of(entity) == IF query_has(entity) THEN children[entity] ELSE << >>

\* propagate_recursive iterates `children_query.into_iter().flatten()`: the
\* Children of every entity of children_query, one after the other
recursive_children(entity) ==
    Flatten([i \in DOMAIN children_query |-> children[children_query[i]]])

Frame(render_layers, todo) == [layers |-> render_layers, todo |-> todo]

Top == stack[Len(stack)]

Pop(stk) == SubSeq(stk, 1, Len(stk) - 1)

\* the top frame's loop moves on to its next child
Advance(stk) == [stk EXCEPT ![Len(stk)].todo = Tail(@)]

\* `propagate_recursive(..)?`: an Err ends the loop it was reached from
propagate_error(stk) == Pop(stk)

\* `let _ = propagate_recursive(..)`: an Err is dropped and the loop goes on
discard_result(stk) == Advance(stk)

NoStep == [kind |-> "none", node |-> {}, wrote |-> FALSE]

\* no pass is remembered
NoSnap == [kind |-> "none", flagged |-> {}, start |-> << >>, outcome |-> << >>]

Step(kind, node, wrote) == [kind |-> kind, node |-> {node}, wrote |-> wrote]

\* the comparison gone: every recomputed value is taken for a new one
differs_always(old, new) == TRUE

\* `computed_visible_layers.0 != render_layers`: the derived PartialEq
differs(old, new) == old # new

\* a call of propagate_recursive needs a stack frame; with none left the
\* process cannot go on
stack_has_room(stk) == Len(stk) < MaxDepth

\* the system starts: the change feed hands it the flagged entities
BeginPass ==
    /\ pc = "idle"
    /\ pc' = "pass"
    /\ queue' = changed_query
    /\ stack' = << >>
    /\ flagged' = {}
    /\ passFlagged' = changed_query
    /\ written' = {}
    /\ recVisited' = {}
    /\ lastStep' = NoStep
    /\ UNCHANGED << tracked, declared, computed, childOf, children, edits, reg, out >>

\* a pass nothing is compared with
StartPass == BeginPass /\ UNCHANGED snap

\* one iteration of `for (entity, ..) in &changed`, up to the loop over
\* children; the query yields the flagged entities in an order its storage
\* decides, each once
EntryStep ==
    /\ pc = "pass"
    /\ stack = << >>
    /\ \E entity \in queue :
        LET render_layers == resolve_entry(entity)
        IN /\ queue' = queue \ {entity}
           /\ IF ~query_has(entity)
              THEN \* `.expect(..)` on the Err of get_mut: the system panics
                   /\ pc' = "panicked"
                   /\ lastStep' = Step("entry", entity, FALSE)
                   /\ UNCHANGED << computed, stack, written >>
              ELSE IF differs(computed[entity], render_layers)
              THEN /\ computed' = [computed EXCEPT ![entity] = render_layers]
                   /\ stack' = << Frame(render_layers, entry_children(entity)) >>
                   /\ written' = written \cup {entity}
                   /\ lastStep' = Step("entry", entity, TRUE)
                   /\ pc' = pc
              ELSE /\ UNCHANGED << computed, stack, written, pc >>
                   /\ lastStep' = Step("entry", entity, FALSE)
    /\ UNCHANGED << tracked, declared, childOf, children, flagged, passFlagged,
                    recVisited, edits, reg, out, snap >>

\* one call of propagate_recursive from a loop over children, up to its own loop
RecursiveStep ==
    /\ pc = "pass"
    /\ stack # << >>
    /\ Top.todo # << >>
    /\ stack_has_room(stack)
    /\ LET entity == Head(Top.todo)
           render_layers == resolve_recursive(entity, Top.layers)
       IN  /\ recVisited' = recVisited \cup {entity}
           /\ IF ~query_has(entity)
              THEN /\ stack' = discard_result(stack)
                   /\ lastStep' = Step("miss", entity, FALSE)
                   /\ UNCHANGED << computed, written >>
              ELSE IF differs(computed[entity], render_layers)
              THEN /\ computed' = [computed EXCEPT ![entity] = render_layers]
                   /\ stack' = Append(Advance(stack),
                                      Frame(render_layers, recursive_children(entity)))
                   /\ written' = written \cup {entity}
                   /\ lastStep' = Step("recursive", entity, TRUE)
              ELSE /\ stack' = Advance(stack)
                   /\ lastStep' = Step("recursive", entity, FALSE)
                   /\ UNCHANGED << computed, written >>
    /\ UNCHANGED << tracked, declared, childOf, children, flagged, pc, queue,
                    passFlagged, edits, reg, out, snap >>

\* a loop over children is done: propagate_recursive returns Ok(()), or the
\* entry loop moves to its next entity
Return ==
    /\ pc = "pass"
    /\ stack # << >>
    /\ Top.todo = << >>
    /\ stack' = Pop(stack)
    /\ UNCHANGED << tracked, declared, computed, childOf, children, flagged, pc, queue,
                    passFlagged, written, recVisited, lastStep, edits, reg, out, snap >>

\* the entry loop is done: the system returns
EndPass ==
    /\ pc = "pass"
    /\ stack = << >>
    /\ queue = {}
    /\ pc' = "idle"
    /\ lastStep' = [NoStep EXCEPT !.kind = "end"]
    /\ UNCHANGED << tracked, declared, computed, childOf, children, flagged, queue, stack,
                    passFlagged, written, recVisited, edits, reg, out, snap >>

PassStep == EntryStep \/ RecursiveStep \/ Return \/ EndPass

\* ------------------------------------------------------------------------
\* The rest of the application, between two runs of the system
\* ------------------------------------------------------------------------

ClearHistory ==
    /\ passFlagged' = {}
    /\ written' = {}
    /\ recVisited' = {}
    /\ lastStep' = NoStep
    /\ snap' = NoSnap

\* VisibleLayers of e is set: Changed<VisibleLayers>
SetDeclared(e, v) ==
    /\ pc = "idle"
    /\ edits < MaxEdits
    /\ query_has(e)
    /\ declared[e] # v
    /\ declared' = [declared EXCEPT ![e] = v]
    /\ flagged' = flagged \cup {e}
    /\ edits' = edits + 1
    /\ ClearHistory
    /\ UNCHANGED << tracked, computed, childOf, children, pc, queue, stack, reg, out >>

\* ChildOf(p) is inserted on c: Changed<ChildOf>; the hierarchy takes c out of
\* its former parent's Children and appends it to p's
Reparented(c, p) ==
    /\ childOf' = [childOf EXCEPT ![c] = {p}]
    /\ children' = [x \in Entity |->
                        IF x = p THEN Append(RemoveFromSeq(children[x], c), c)
                        ELSE RemoveFromSeq(children[x], c)]
    /\ flagged' = IF query_has(c) THEN flagged \cup {c} ELSE flagged

SetParent(c, p) ==
    /\ pc = "idle"
    /\ edits < MaxEdits
    /\ c # p
    /\ childOf[c] # {p}
    /\ p \notin Descendants(c)
    /\ Reparented(c, p)
    /\ edits' = edits + 1
    /\ ClearHistory
    /\ UNCHANGED << tracked, declared, computed, pc, queue, stack, reg, out >>

Edit ==
    \/ \E e \in Entity, v \in VisibleLayersChoices : SetDeclared(e, v)
    \/ \E c \in Entity, p \in Entity : SetParent(c, p)

\* ------------------------------------------------------------------------
\* Specification: a world of freshly spawned entities, edited and propagated
\* ------------------------------------------------------------------------

LayerIdle ==
    /\ reg = [x \in {"a", "b"} |-> none]
    /\ out = [op |-> "idle"]

PassIdle ==
    /\ pc = "idle"
    /\ queue = {}
    /\ stack = << >>
    /\ passFlagged = {}
    /\ written = {}
    /\ recVisited = {}
    /\ lastStep = NoStep
    /\ snap = NoSnap

\* the entity that may lack VisibleLayers and ComputedVisibleLayers
Outsider == NumEntities

First == SetMin(Entity)

Second == First + 1

Third == Second + 1

\* the scenes a run starts from, as Children lists: no hierarchy; a chain
\* First -> Second -> Third; First with the children Outsider, Second, Third;
\* the two pairs First -> Second and Outsider -> Third
FlatScene == [e \in Entity |-> << >>]

ChainScene == [FlatScene EXCEPT ![First] = << Second >>, ![Second] = << Third >>]

StarScene == [FlatScene EXCEPT ![First] = << Outsider, Second, Third >>]

PairsScene == [FlatScene EXCEPT ![First] = << Second >>, ![Outsider] = << Third >>]

Scenes == {FlatScene, ChainScene, StarScene, PairsScene}

\* the ChildOf components that mirror the Children lists of a scene
ParentsIn(scene) == [c \in Entity |-> {p \in Entity : c \in Range(scene[p])}]

\* a scene is spawned: each tracked entity with the default VisibleLayers
\* (Inherited) and the required default ComputedVisibleLayers, both just added
Init ==
    /\ tracked \in {Entity, Entity \ {Outsider}}
    /\ declared = [e \in Entity |-> Inherited]
    /\ computed = [e \in Entity |-> computed_default]
    /\ \E scene \in Scenes :
          /\ children = scene
          /\ childOf = ParentsIn(scene)
    /\ flagged = tracked
    /\ edits = 0
    /\ PassIdle
    /\ LayerIdle

Next == StartPass \/ PassStep \/ Edit

Spec == Init /\ [][Next]_vars

\* ------------------------------------------------------------------------
\* Specification: the three-level chain root -> mid -> leaf
\* ------------------------------------------------------------------------

ChainRoot == First

ChainMid == Second

ChainLeaf == Third

ChainNodes == {ChainRoot, ChainMid, ChainLeaf}

\* the chain is built, all Inherited, and a first pass has run over it
ChainInit ==
    /\ tracked = ChainNodes
    /\ declared = [e \in Entity |-> Inherited]
    /\ computed = [e \in Entity |-> computed_default]
    /\ children = ChainScene
    /\ childOf = ParentsIn(ChainScene)
    /\ flagged = {}
    /\ edits = 0
    /\ PassIdle
    /\ LayerIdle

ChainEdited(e, v) ==
    /\ pc = "idle"
    /\ edits < MaxEdits + 2
    /\ declared' = [declared EXCEPT ![e] = v]
    /\ flagged' = flagged \cup {e}
    /\ edits' = edits + 1
    /\ ClearHistory
    /\ UNCHANGED << tracked, computed, childOf, children, pc, queue, stack, reg, out >>

\* the root's VisibleLayers is changed, at any time
SetRoot(v) ==
    /\ declared[ChainRoot] # v
    /\ ChainEdited(ChainRoot, v)

\* the leaf is made explicit, with layers other than the root's, once the
\* root's layers have reached mid and leaf
SetLeafExplicit(s) ==
    /\ declared[ChainRoot].tag = "Layers"
    /\ declared[ChainRoot].layers # s
    /\ declared[ChainLeaf].tag = "Inherited"
    /\ computed[ChainMid] = declared[ChainRoot].layers
    /\ computed[ChainLeaf] = declared[ChainRoot].layers
    /\ ChainEdited(ChainLeaf, Layers(s))

\* the leaf is set back to Inherited
SetLeafInherited ==
    /\ declared[ChainLeaf].tag = "Layers"
    /\ ChainEdited(ChainLeaf, Inherited)

ChainEdit ==
    \/ \E v \in VisibleLayersChoices : SetRoot(v)
    \/ \E s \in ExplicitChoices : SetLeafExplicit(s)
    \/ SetLeafInherited

ChainNext == StartPass \/ PassStep \/ ChainEdit

ChainSpec == ChainInit /\ [][ChainNext]_vars

\* ------------------------------------------------------------------------
\* Specification: one pass from any assignment of values over a forest
\* ------------------------------------------------------------------------

\* the computed values an entity may hold when a pass starts
ComputedChoices == {default_layers} \cup ExplicitChoices

\* the entities of a hierarchy: those with a parent or a child
Linked == {e \in Entity : childOf[e] # {} \/ children[e] # << >>}

\* the flagged sets a pass is started with: nothing, one entity, everything
FlaggedChoices == {{}} \cup {{e} : e \in tracked} \cup {tracked}

\* any declared and computed values on the tracked entities of the hierarchy
\* (the others as spawned), and a flagged set
AnyValues ==
    /\ tracked \in {Entity, Entity \ {Outsider}}
    /\ declared \in [Entity -> VisibleLayersChoices]
    /\ \A e \in Entity \ (tracked \cap Linked) : declared[e] = Inherited
    /\ computed \in [Entity -> ComputedChoices]
    /\ \A e \in Entity \ (tracked \cap Linked) : computed[e] = computed_default
    /\ flagged \in FlaggedChoices
    /\ edits = 0
    /\ PassIdle
    /\ LayerIdle

ForestInit ==
    /\ \E scene \in Scenes :
          /\ children = scene
          /\ childOf = ParentsIn(scene)
    /\ AnyValues

ForestNext == StartPass \/ PassStep

\* the system is one synchronous function: once started, it takes its steps
ForestSpec == ForestInit /\ [][ForestNext]_vars /\ WF_vars(PassStep)

\* ------------------------------------------------------------------------
\* Specification: one pass over malformed Children / ChildOf links
\* ------------------------------------------------------------------------

\* Children lists no hierarchy should hold: two entities listing each other;
\* an entity listing itself; two entities listing each other and the same
\* child; a cycle of three
CycleLinks == [FlatScene EXCEPT ![First] = << Second >>, ![Second] = << First >>]

SelfLinks == [FlatScene EXCEPT ![First] = << First, Second >>]

SharedLinks == [FlatScene EXCEPT ![First] = << Third, Second >>,
                                 ![Second] = << Third, First >>]

LoopLinks == [FlatScene EXCEPT ![First] = << Second >>, ![Second] = << Third >>,
                               ![Third] = << First >>]

MalformedLinks == {CycleLinks, SelfLinks, SharedLinks, LoopLinks}

\* a ChildOf for each listed child: the first of the entities that list it
OneParentIn(links) ==
    [c \in Entity |->
        IF ParentsIn(links)[c] = {} THEN {} ELSE {SetMin(ParentsIn(links)[c])}]

LinksInit ==
    /\ \E links \in MalformedLinks :
          /\ children = links
          /\ childOf = OneParentIn(links)
    /\ AnyValues

LinksSpec == LinksInit /\ [][ForestNext]_vars /\ WF_vars(PassStep)

\* ------------------------------------------------------------------------
\* Specification: RenderLayers values built and queried call by call
\* ------------------------------------------------------------------------

\* the storages (distinct objects, hence distinct addresses) holding the values
Storage == {"a", "b"}

\* the layers handed to the calls: both ends of the first block, the first
\* layer of the second block, a layer of the third block
LayerChoices == {0, BLOCK_BITS - 1, BLOCK_BITS, MaxLayer}

\* the slices handed to from_layers: any order, duplicates included
SliceChoices == UNION {[1 .. k -> LayerChoices] : k \in 0 .. MaxLen}

\* the calls touch no entity and no pass
ValuesOnly == UNCHANGED << worldVars, passVars, edits >>

RECURSIVE AscendingSlice(_)
\* the layers of a set as a slice, lowest first
AscendingSlice(S) ==
    IF S = {} THEN << >> ELSE << SetMin(S) >> \o AscendingSlice(S \ {SetMin(S)})

\* every value the calls can build from the layers handed to them
Values == {from_iter(AscendingSlice(S)) : S \in SUBSET LayerChoices}

\* x = RenderLayers::none()
CallNone(x) ==
    /\ reg' = [reg EXCEPT ![x] = none]
    /\ out' = [op |-> "none", dst |-> x]
    /\ ValuesOnly

\* x = RenderLayers::layer(n): the assertion fails for n beyond the inline blocks
CallLayer(x, n) ==
    /\ IF layer_in_bounds(n)
       THEN /\ reg' = [reg EXCEPT ![x] = layer(n)]
            /\ out' = [op |-> "layer", dst |-> x, arg |-> n, before |-> reg[x],
                       panicked |-> FALSE]
       ELSE /\ reg' = reg
            /\ out' = [op |-> "layer", dst |-> x, arg |-> n, before |-> reg[x],
                       panicked |-> TRUE]
    /\ ValuesOnly

\* x = RenderLayers::from_layers(xs)
CallFromLayers(x, xs) ==
    /\ reg' = [reg EXCEPT ![x] = from_layers(xs)]
    /\ out' = [op |-> "from_layers", dst |-> x, arg |-> xs]
    /\ ValuesOnly

\* x = x.with(n)
CallWith(x, n) ==
    /\ reg' = [reg EXCEPT ![x] = with(reg[x], n)]
    /\ out' = [op |-> "with", dst |-> x, arg |-> n, before |-> reg[x]]
    /\ ValuesOnly

\* x = x.without(n)
CallWithout(x, n) ==
    /\ reg' = [reg EXCEPT ![x] = without(reg[x], n)]
    /\ out' = [op |-> "without", dst |-> x, arg |-> n, before |-> reg[x]]
    /\ ValuesOnly

\* x = x.without(n).with(n)
CallWithoutWith(x, n) ==
    /\ reg' = [reg EXCEPT ![x] = with(without(reg[x], n), n)]
    /\ out' = [op |-> "without_with", dst |-> x, arg |-> n, before |-> reg[x]]
    /\ ValuesOnly

\* x = x.union(&y), also x | y
CallUnion(x, y) ==
    /\ reg' = [reg EXCEPT ![x] = union(reg[x], reg[y])]
    /\ out' = [op |-> "union", dst |-> x, arg |-> y, before |-> reg[x]]
    /\ ValuesOnly

\* x = x.intersection(&y), also x & y
CallIntersection(x, y) ==
    /\ reg' = [reg EXCEPT ![x] = intersection(reg[x], reg[y])]
    /\ out' = [op |-> "intersection", dst |-> x, arg |-> y, before |-> reg[x]]
    /\ ValuesOnly

\* x = x.symmetric_difference(&y), also x ^ y
CallSymmetricDifference(x, y) ==
    /\ reg' = [reg EXCEPT ![x] = symmetric_difference(reg[x], reg[y])]
    /\ out' = [op |-> "symmetric_difference", dst |-> x, arg |-> y, before |-> reg[x]]
    /\ ValuesOnly

\* x.intersects(&y)
CallIntersects(x, y) ==
    /\ reg' = reg
    /\ out' = [op |-> "intersects", dst |-> x, arg |-> y,
               result |-> intersects(x, reg[x], y, reg[y])]
    /\ ValuesOnly

\* x.iter().collect()
CallIter(x) ==
    /\ reg' = reg
    /\ out' = [op |-> "iter", dst |-> x, result |-> iter(reg[x])]
    /\ ValuesOnly

Build ==
    \/ \E x \in Storage : CallNone(x)
    \/ \E x \in Storage, n \in LayerChoices : CallLayer(x, n)
    \/ \E x \in Storage, xs \in SliceChoices : CallFromLayers(x, xs)
    \/ \E x \in Storage, n \in LayerChoices : CallWith(x, n)
    \/ \E x \in Storage, n \in LayerChoices : CallWithout(x, n)
    \/ \E x \in Storage, n \in LayerChoices : CallWithoutWith(x, n)
    \/ \E x \in Storage, y \in Storage : CallUnion(x, y)
    \/ \E x \in Storage, y \in Storage : CallIntersection(x, y)
    \/ \E x \in Storage, y \in Storage : CallSymmetricDifference(x, y)

Query ==
    \/ \E x \in Storage, y \in Storage : CallIntersects(x, y)
    \/ \E x \in Storage : CallIter(x)

\* no entity, no pass: only the values
LayerInit ==
    /\ tracked = {}
    /\ declared = [e \in Entity |-> Inherited]
    /\ computed = [e \in Entity |-> computed_default]
    /\ children = FlatScene
    /\ childOf = ParentsIn(FlatScene)
    /\ flagged = {}
    /\ edits = 0
    /\ PassIdle
    /\ LayerIdle

LayerNext == Build \/ Query

LayerSpec == LayerInit /\ [][LayerNext]_vars

\* ------------------------------------------------------------------------
\* Specification: a pass run again, on what it left or on what it started from
\* ------------------------------------------------------------------------

\* the history of the pass that ended goes; the values stay
ForgetPass ==
    /\ passFlagged' = {}
    /\ written' = {}
    /\ recVisited' = {}
    /\ lastStep' = NoStep

\* a pass whose starting values and flagged set are remembered
StartRecorded ==
    /\ snap.kind = "none"
    /\ changed_query # {}
    /\ BeginPass
    /\ snap' = [kind |-> "first", flagged |-> changed_query,
                start |-> computed, outcome |-> computed]

\* the pass has ended and nothing was edited; the components of the entities
\* it was handed are touched without being changed (DerefMut), which flags
\* the same entities again
Touch ==
    /\ pc = "idle"
    /\ lastStep.kind = "end"
    /\ flagged = {}
    /\ passFlagged # {}
    /\ edits < MaxEdits
    /\ edits' = edits + 1
    /\ flagged' = passFlagged
    /\ snap' = [kind |-> "repeat", flagged |-> passFlagged,
                start |-> computed, outcome |-> computed]
    /\ ForgetPass
    /\ UNCHANGED << tracked, declared, computed, childOf, children, pc, queue, stack,
                    reg, out >>

\* the remembered pass has ended: its outcome is kept, and the system is
\* handed the same starting values and the same flagged set once more, to
\* examine them in whatever order its queries now yield
Rerun ==
    /\ pc = "idle"
    /\ lastStep.kind = "end"
    /\ snap.kind = "first"
    /\ computed' = snap.start
    /\ flagged' = snap.flagged
    /\ snap' = [snap EXCEPT !.kind = "second", !.outcome = computed]
    /\ ForgetPass
    /\ UNCHANGED << tracked, declared, childOf, children, pc, queue, stack, edits,
                    reg, out >>

RepeatNext == StartPass \/ StartRecorded \/ PassStep \/ Edit \/ Touch \/ Rerun

RepeatSpec == Init /\ [][RepeatNext]_vars

\* ------------------------------------------------------------------------
\* Properties of the propagation
\* ------------------------------------------------------------------------

\* a pass has run to its end and nothing was edited since
PassDone == pc = "idle" /\ lastStep.kind = "end"

\* the last step was the entry loop's iteration for e
EntryStepOf(e) == lastStep.kind = "entry" /\ lastStep.node = {e}

\* e is tracked and inherits, and the entry loop finds no parent with a
\* computed value: no ChildOf, or a ChildOf whose target the query does not hold
InheritsFromNobody(e) ==
    /\ query_has(e)
    /\ declared[e].tag = "Inherited"
    /\ ~ \E p \in childOf[e] : query_has(p)

\* the invariant the propagation is to restore, at e
InheritanceHolds(e) ==
    /\ declared[e].tag = "Layers" => computed[e] = declared[e].layers
    /\ declared[e].tag = "Inherited" =>
          \A p \in childOf[e] : query_has(p) => computed[e] = computed[p]

\* the flagged entities of the pass and everything below them
FlaggedOrBelow == passFlagged \cup UNION {Descendants(f) : f \in passFlagged}

\* C1: when a pass over an acyclic forest has completed, every tracked entity
\* with Layers(s) has computed value s, and every tracked Inherited entity with
\* a tracked parent has its parent's computed value.
C1_InvariantRestored ==
    (PassDone /\ WellFormed) => \A e \in tracked : InheritanceHolds(e)

\* C2: a pass writes the computed value only of entities that were flagged or
\* that are descendants of a flagged entity.
C2_WritesOnlyBelowFlagged == written \subseteq FlaggedOrBelow

\* C3 as stated: an Inherited entity for which the entry loop finds no parent
\* with a computed value is resolved to the empty set, and holds it afterwards.
C3_ResolvesToEmpty ==
    \A e \in Entity : (EntryStepOf(e) /\ InheritsFromNobody(e)) => computed[e] = none

\* C3, amended: an Inherited entity for which the entry loop finds no parent
\* with a computed value (no ChildOf, or a ChildOf that does not resolve) is
\* resolved to the default layers, {0}, and holds that afterwards.
C3_ResolvesToDefault ==
    \A e \in Entity :
        (EntryStepOf(e) /\ InheritsFromNobody(e)) =>
            (computed[e] = default_layers /\ Members(computed[e]) = {0})

\* C3 witness: the entry loop has just written the computed value of an
\* Inherited entity whose ChildOf points at an entity the query does not hold.
C3_Witness ==
    \E e \in Entity :
        /\ EntryStepOf(e)
        /\ lastStep.wrote
        /\ InheritsFromNobody(e)
        /\ childOf[e] # {}

\* what the root of the chain declares: its layers, or the default of a root
ChainRootValue ==
    IF declared[ChainRoot].tag = "Layers" THEN declared[ChainRoot].layers
    ELSE default_layers

\* C4: in the chain root -> mid -> leaf with mid Inherited, after every
\* completed pass: while the leaf is Inherited, mid and leaf hold the root's
\* current value (after the root is set, and again after the leaf is set back
\* to Inherited), and while the leaf is Layers(B) it holds B whatever the root
\* is changed to.
C4_ChainFollowsRoot ==
    PassDone =>
        /\ declared[ChainLeaf].tag = "Inherited" =>
              /\ computed[ChainMid] = ChainRootValue
              /\ computed[ChainLeaf] = ChainRootValue
        /\ declared[ChainLeaf].tag = "Layers" =>
              computed[ChainLeaf] = declared[ChainLeaf].layers

\* the entry loop is about to recompute e and resolves it to what it holds
EntryRecomputesSame(e) ==
    /\ pc = "pass"
    /\ stack = << >>
    /\ e \in queue
    /\ queue' = queue \ {e}
    /\ resolve_entry(e) = computed[e]

\* propagate_recursive is about to recompute e and resolves it to what it holds
RecursionRecomputesSame(e) ==
    /\ pc = "pass"
    /\ stack # << >>
    /\ Top.todo # << >>
    /\ Head(Top.todo) = e
    /\ query_has(e)
    /\ resolve_recursive(e, Top.layers) = computed[e]

\* the step writes nothing and opens no loop over children
NothingWrittenNothingEntered ==
    /\ computed' = computed
    /\ written' = written
    /\ Len(stack') <= Len(stack)

\* the hierarchy is exactly the chain r -> m -> l
IsChain(r, m, l) ==
    /\ {r, m, l} \subseteq tracked
    /\ children = [e \in Entity |->
                     IF e = r THEN << m >> ELSE IF e = m THEN << l >> ELSE << >>]

\* the chain case of the pruning: if the pass has not written mid, then
\* propagate_recursive was never called on leaf, and leaf was written only if
\* it was itself flagged
ChainPruned ==
    \A r, m, l \in Entity :
        (IsChain(r, m, l) /\ m \notin written) =>
            /\ l \notin recVisited
            /\ l \in written => l \in passFlagged

\* C5: whenever the entry loop or propagate_recursive recomputes an entity and
\* resolves it to the computed value it already has, the step writes nothing
\* and opens no loop over that entity's children; and in a chain
\* root -> mid -> leaf, a pass that does not write mid never reaches leaf
\* through the recursion.
C5_Pruning ==
    /\ [][\A e \in Entity :
            (EntryRecomputesSame(e) \/ RecursionRecomputesSame(e)) =>
                NothingWrittenNothingEntered]_vars
    /\ []ChainPruned

\* C5 witness: propagate_recursive has just left alone mid of a chain, which
\* has a child, and the pass ends without the leaf having been visited.
C5_Witness ==
    \E r, m, l \in Entity :
        /\ IsChain(r, m, l)
        /\ PassDone
        /\ r \in written
        /\ m \in recVisited
        /\ m \notin written
        /\ l \notin recVisited

\* propagate_recursive is about to be called on a child the query does not hold
LookupFails ==
    /\ pc = "pass"
    /\ stack # << >>
    /\ Top.todo # << >>
    /\ ~query_has(Head(Top.todo))

\* C8: when a child reached by the recursion does not resolve, nothing is
\* written, the loop the child was reached from goes on with the child's
\* remaining siblings, the flagged entities still to examine stay queued and
\* the pass keeps running; and at the end of every pass each child of each
\* written entity has been reached.
C8_LookupFailureSwallowed ==
    /\ [][LookupFails =>
            /\ computed' = computed
            /\ written' = written
            /\ stack' = [stack EXCEPT ![Len(stack)].todo = Tail(@)]
            /\ queue' = queue
            /\ pc' = "pass"]_vars
    /\ [](PassDone => \A e \in written : Range(children[e]) \subseteq recVisited)

\* C8 witness: a pass has ended in which a lookup failed on a child that had
\* siblings after it, and such a sibling was then written.
C8_Witness ==
    \E p \in Entity : \E i, j \in DOMAIN children[p] :
        /\ PassDone
        /\ p \in written
        /\ i < j
        /\ ~query_has(children[p][i])
        /\ children[p][i] \in recVisited
        /\ children[p][j] \in written

\* C6: over an acyclic forest, from any declared and computed values and any
\* flagged set, a pass that has started comes to its end: every loop over
\* children returns and the entry loop runs out of flagged entities.
C6_PassTerminates == (pc = "pass") ~> (pc = "idle")

\* C6 witness: a pass has ended that wrote, through the recursion, entities
\* that were not flagged.
C6_Witness ==
    /\ PassDone
    /\ WellFormed
    /\ written \ passFlagged # {}
    /\ Cardinality(written) >= 3

\* some entity reaches itself through the Children lists, or is listed twice
ListsItself(e) ==
    \/ e \in Range(children[e])
    \/ \E d \in Range(children[e]) : e \in Range(children[d])
    \/ \E d \in Range(children[e]) : \E c \in Range(children[d]) : e \in Range(children[c])

ListedTwice(c) == Cardinality({p \in Entity : c \in Range(children[p])}) > 1

\* C7: over cyclic or otherwise malformed links too, a pass never panics, never
\* exhausts the stack, and, once started, comes to its end.
C7_MalformedLinksTerminate ==
    /\ [](pc # "panicked")
    /\ [](Len(stack) < MaxDepth)
    /\ ((pc = "pass") ~> (pc = "idle"))

\* C7 witness: a pass has ended that wrote an entity lying on a cycle of
\* Children lists and an entity listed by two parents.
C7_Witness ==
    /\ PassDone
    /\ \E e \in written : ListsItself(e)
    /\ \E c \in written : ListedTwice(c)

\* ------------------------------------------------------------------------
\* Properties of RenderLayers values
\* ------------------------------------------------------------------------

\* some layer belongs to both values
ShareALayer(s, t) == Members(s) \cap Members(t) # {}

\* C9: two values, however they were built, compare equal (the derived ==,
\* block sequence against block sequence) exactly when they contain the same
\* layers.
C9_EqualityReflectsMembership ==
    \A x \in Storage, y \in Storage :
        (reg[x] = reg[y]) <=> (Members(reg[x]) = Members(reg[y]))

\* C9 witness: without has just removed the only layer of the second block
\* from a value that also holds layers of the first block, and the result
\* equals the value of the other storage.
C9_Witness ==
    /\ out.op = "without"
    /\ Len(out.before) > Len(reg[out.dst])
    /\ Members(reg[out.dst]) # {}
    /\ \E y \in Storage \ {out.dst} : reg[y] = reg[out.dst]

\* C10: for two distinct values, intersects answers whether they share a
\* layer, whatever their block counts; it is symmetric, and a value with no
\* layers intersects no other value; the answer a call returned is that one.
C10_IntersectsIsSharing ==
    /\ \A x \in Storage : \A y \in Storage \ {x} :
          /\ intersects(x, reg[x], y, reg[y]) <=> ShareALayer(reg[x], reg[y])
          /\ intersects(x, reg[x], y, reg[y]) <=> intersects(y, reg[y], x, reg[x])
          /\ Members(reg[x]) = {} => ~intersects(x, reg[x], y, reg[y])
    /\ (out.op = "intersects" /\ out.dst # out.arg)
          => (out.result <=> ShareALayer(reg[out.dst], reg[out.arg]))

\* C10 witness: intersects has just returned true for two distinct values of
\* different block counts whose only shared layer lies beyond the first block.
C10_Witness ==
    /\ out.op = "intersects"
    /\ out.dst # out.arg
    /\ out.result
    /\ Len(reg[out.dst]) # Len(reg[out.arg])
    /\ Members(reg[out.dst]) \cap Members(reg[out.arg]) = {BLOCK_BITS}

\* the answer of the block-by-block comparison of a value with itself
BlockComparisonWithSelf(s) ==
    \E i \in 1 .. Len(s) : BitAndBlock[s[i], s[i]] # ZeroBlock

\* C11: intersects called with the same object on both sides returns true
\* exactly when the value holds at least one layer, which is what the
\* block-by-block comparison answers.
C11_ShortcutAgrees ==
    (out.op = "intersects" /\ out.dst = out.arg)
        => /\ out.result <=> Members(reg[out.dst]) # {}
           /\ out.result <=> BlockComparisonWithSelf(reg[out.dst])

\* C12 as stated: removing a layer and adding it again gives back the
\* starting value, for every starting value and every layer.
C12_RoundTripAlways ==
    out.op = "without_with" => reg[out.dst] = out.before

\* C12: removing a layer the value contains and adding it again gives back
\* a value equal to the starting one; for a layer the value does not contain
\* the result is the starting value with that layer added.
C12_RoundTripOfMember ==
    out.op = "without_with" =>
        /\ out.arg \in Members(out.before) => reg[out.dst] = out.before
        /\ out.arg \notin Members(out.before) =>
              /\ reg[out.dst] # out.before
              /\ Members(reg[out.dst]) = Members(out.before) \cup {out.arg}

\* C12 witness: the round trip has run on a value of several blocks for the
\* only layer of its last block, so that without shrank it and with grew it.
C12_Witness ==
    /\ out.op = "without_with"
    /\ out.arg \in Members(out.before)
    /\ Len(out.before) > INLINE_BLOCKS
    /\ Len(without(out.before, out.arg)) < Len(out.before)
    /\ Members(without(out.before, out.arg)) # {}

\* the operands of the last binary operation, as they were when it was called
LeftOperand == out.before

RightOperand == IF out.arg = out.dst THEN out.before ELSE reg[out.arg]

BinaryOps == {"union", "intersection", "symmetric_difference"}

\* the symmetric difference of two sets of layers
SymDiff(S, T) == (S \ T) \cup (T \ S)

\* C13: union, intersection and symmetric_difference, and the operators
\* |, & and ^, return a value whose layers are exactly the union, the
\* intersection and the symmetric difference of the operands' layers,
\* whatever the block counts of the operands.
C13_SetOperations ==
    out.op \in BinaryOps =>
        LET A == Members(LeftOperand)
            B == Members(RightOperand)
        IN  /\ out.op = "union" => Members(reg[out.dst]) = A \cup B
            /\ out.op = "intersection" => Members(reg[out.dst]) = A \cap B
            /\ out.op = "symmetric_difference" => Members(reg[out.dst]) = SymDiff(A, B)
            /\ Members(bitor(LeftOperand, RightOperand)) = A \cup B
            /\ Members(bitand(LeftOperand, RightOperand)) = A \cap B
            /\ Members(bitxor(LeftOperand, RightOperand)) = SymDiff(A, B)

\* C13 witness: a binary operation has run on two operands of different block
\* counts that share a layer and each hold a layer the other lacks, one of
\* them beyond the blocks of the shorter operand.
C13_Witness ==
    /\ out.op \in BinaryOps
    /\ out.arg # out.dst
    /\ Len(LeftOperand) < Len(RightOperand)
    /\ Members(LeftOperand) \cap Members(RightOperand) # {}
    /\ Members(LeftOperand) \ Members(RightOperand) # {}
    /\ \E n \in Members(RightOperand) : n >= BLOCK_BITS * Len(LeftOperand)

\* C14: under the derived ==, union, intersection and symmetric_difference
\* are commutative for the values of any two storages, union and
\* intersection are associative with any third value the calls can build
\* (every stored value is one of them), and none() is an identity: none() | x == x, none() & x == none(), none() ^ x == x.
C14_AlgebraicLaws ==
    /\ \A x \in Storage : reg[x] \in Values
    /\ \A x \in Storage, y \in Storage :
          LET a == reg[x]
              b == reg[y]
          IN  /\ union(a, b) = union(b, a)
              /\ intersection(a, b) = intersection(b, a)
              /\ symmetric_difference(a, b) = symmetric_difference(b, a)
              /\ \A c \in Values :
                    /\ union(union(a, b), c) = union(a, union(b, c))
                    /\ intersection(intersection(a, b), c)
                          = intersection(a, intersection(b, c))
    /\ \A x \in Storage :
          /\ bitor(none, reg[x]) = reg[x]
          /\ bitand(none, reg[x]) = none
          /\ bitxor(none, reg[x]) = reg[x]
    /\ out.op = "union" =>
          reg[out.dst] = union(RightOperand, LeftOperand)
    /\ out.op = "intersection" =>
          reg[out.dst] = intersection(RightOperand, LeftOperand)
    /\ out.op = "symmetric_difference" =>
          reg[out.dst] = symmetric_difference(RightOperand, LeftOperand)

\* C14 witness: none() & x has just been computed for an x of several blocks
\* held in the other storage, and has given none().
C14_Witness ==
    /\ out.op = "intersection"
    /\ out.arg # out.dst
    /\ LeftOperand = none
    /\ Len(RightOperand) > INLINE_BLOCKS
    /\ reg[out.dst] = none

\* a sequence of layers in strictly ascending order
StrictlyAscending(xs) == \A i \in 1 .. Len(xs) - 1 : xs[i] < xs[i + 1]

\* C15: iter() yields exactly the layers of the value, each once, in strictly
\* ascending order, members at bit 63 and members of later blocks included;
\* the layers of from_layers(xs) are iterated as xs sorted and de-duplicated.
C15_IterYieldsMembers ==
    /\ out.op = "iter" =>
          /\ StrictlyAscending(out.result)
          /\ Range(out.result) = Members(reg[out.dst])
          /\ Len(out.result) = Cardinality(Members(reg[out.dst]))
    /\ out.op = "from_layers" =>
          iter(reg[out.dst]) = AscendingSlice(Range(out.arg))

\* C15 witness: iter() has run over a value that holds layer 63, the first
\* layer of the second block and a layer of a later block.
C15_Witness ==
    /\ out.op = "iter"
    /\ Len(out.result) >= 3
    /\ {BLOCK_BITS - 1, BLOCK_BITS, MaxLayer} \subseteq Range(out.result)

CanonicalLen(s) ==
    IF Members(s) = {}
    THEN INLINE_BLOCKS
    ELSE Max2(INLINE_BLOCKS, (SetMax(Members(s)) \div BLOCK_BITS) + 1)

\* C17: every value the calls produce has max(1, highest layer / 64 + 1)
\* blocks, that is no all-zero block after the first; in particular after
\* union, and with of a layer of the second block on a one-block value gives
\* two blocks, without of that layer gives one block again.
C17_CanonicalForm ==
    /\ \A x \in Storage : Len(reg[x]) = CanonicalLen(reg[x])
    /\ (out.op = "with" /\ Len(out.before) = 1 /\ out.arg \div BLOCK_BITS = 1)
          => /\ Len(reg[out.dst]) = 2
             /\ Len(without(reg[out.dst], out.arg)) = 1

\* C17 witness: without has removed the only layer beyond the first block
\* from a value of three blocks, which shrank to one block.
C17_Witness ==
    /\ out.op = "without"
    /\ Len(out.before) = 3
    /\ Len(reg[out.dst]) = 1
    /\ Members(reg[out.dst]) # {}

\* C18: with(n) returns the layers of the value plus n, and without(n) its
\* layers other than n, however large n; without of a layer the value does
\* not hold, one whose block does not exist included, returns an equal value.
C18_WithAndWithout ==
    /\ out.op = "with" =>
          Members(reg[out.dst]) = Members(out.before) \cup {out.arg}
    /\ out.op = "without" =>
          /\ Members(reg[out.dst]) = Members(out.before) \ {out.arg}
          /\ out.arg \notin Members(out.before) => reg[out.dst] = out.before

\* C18 witness: without has been called on a non-empty value for a layer whose
\* block the value does not have.
C18_Witness ==
    /\ out.op = "without"
    /\ Members(out.before) # {}
    /\ out.arg \div BLOCK_BITS >= Len(out.before)
    /\ reg[out.dst] = out.before

\* ------------------------------------------------------------------------
\* Properties of repeated passes
\* ------------------------------------------------------------------------

\* C19: a pass run again on what the previous pass left, with the same
\* flagged set and nothing edited in between, writes no computed value: the
\* computed values stay those the previous pass ended with.
C19_SecondPassWritesNothing ==
    snap.kind = "repeat" => computed = snap.outcome

\* C20: for the same hierarchy, declared values, starting computed values and
\* flagged set, a pass ends with the same computed values whatever the order
\* in which the flagged entities and the children were examined.
C20_OutcomeIndependentOfOrder ==
    (PassDone /\ snap.kind = "second" /\ passFlagged = snap.flagged)
        => computed = snap.outcome

====
